---------------------------- MODULE Spec2Model ----------------------------
(***************************************************************************)
(* Model of the data-indexing and query layer of the DoW directory app:    *)
(*   - utils/dataLoader (ingestion, buildOrgTree, calculateStats)          *)
(*   - hooks/useData    (DataProvider, the one-shot load)                  *)
(*   - hooks/useSearch  (useSearch debounce effect, useFilteredData)       *)
(*                                                                         *)
(* Strings the code only compares or tests for emptiness are TLA+ strings  *)
(* ("" is the empty string).  Strings the code takes apart (query,         *)
(* mission_area, the searched name) are sequences of one-character         *)
(* strings (<<>> is the empty string).                                     *)
(*                                                                         *)
(* A nullable value is None (null) or Some(v).                             *)
(***************************************************************************)
EXTENDS Integers, Sequences, FiniteSets, TLC

VARIABLES
    \* DataProvider (hooks/useData.tsx)
    people, relationships, orgTree, stats, isLoading, error, loadPc,
    \* history of the load: what the two requests delivered
    source,
    \* useSearch (hooks/useSearch.ts)
    query, results, isSearching, fuse, timers, cleanup, effectDue,
    \* history of useSearch: ms since the query last changed, last timer run
    quietMs, lastEval,
    \* useFilteredData (hooks/useSearch.ts)
    filters, filteredData

dataVars   == <<people, relationships, orgTree, stats, isLoading, error, loadPc,
                source>>
searchVars == <<query, results, isSearching, fuse, timers, cleanup, effectDue,
                quietMs, lastEval>>
filterVars == <<filters, filteredData>>
vars       == <<dataVars, searchVars, filterVars>>

None    == <<>>
Some(x) == <<x>>

Min(a, b) == IF a < b THEN a ELSE b
Max(a, b) == IF a > b THEN a ELSE b

-----------------------------------------------------------------------------
(* Bounds of the model *)

\* longest Person collection drawn for the hierarchy / statistics checks
MaxPeople == 3
\* longest Person collection drawn for the filter checks
MaxFilterPeople == 3
\* longest query a user types
MaxQueryLen == 2
\* how many records the large search dataset holds beyond the result cap
MaxExtra == 2
\* granularity of the clock, in ms
TickMs == 50

-----------------------------------------------------------------------------
(* Character strings *)

IsSpace(c) == c = " "

RECURSIVE TrimLeft(_)
TrimLeft(s) ==
    IF s # <<>> /\ IsSpace(Head(s)) THEN TrimLeft(Tail(s)) ELSE s

RECURSIVE TrimRight(_)
TrimRight(s) ==
    IF s # <<>> /\ IsSpace(s[Len(s)]) THEN TrimRight(SubSeq(s, 1, Len(s) - 1)) ELSE s

\* String.prototype.trim
Trim(s) == TrimRight(TrimLeft(s))

\* String.prototype.split(sep) for a one-character separator: "" gives [""]
RECURSIVE Split(_, _)
Split(s, sep) ==
    IF \E i \in 1..Len(s) : s[i] = sep
    THEN LET i == CHOOSE k \in 1..Len(s) :
                      s[k] = sep /\ \A j \in 1..(k - 1) : s[j] # sep
         IN  <<SubSeq(s, 1, i - 1)>> \o Split(SubSeq(s, i + 1, Len(s)), sep)
    ELSE <<s>>

Includes_LastOnly(s, x) == s # <<>> /\ s[Len(s)] = x

\* Array.prototype.includes
Includes(s, x) == \E i \in 1..Len(s) : s[i] = x

MissionAreas_NoTrim(mission) == Split(mission, ",")

\* p.mission_area.split(',').map((a) => a.trim())
MissionAreas(mission) ==
    LET parts == Split(mission, ",")
    IN  [i \in 1..Len(parts) |-> Trim(parts[i])]

-----------------------------------------------------------------------------
(* types/index.ts *)

Services ==
    << "Army", "Navy", "Air Force", "Space Force", "Marines",
       "OSD", "SOCOM", "MDA", "DLA", "DISA", "DTRA", "DARPA",
       "DCMA", "DHA", "NGA", "NSA", "DIA", "Unknown" >>

ServiceSet == {Services[i] : i \in 1..Len(Services)}

Person(name, rank, pos, posType, status, service, orgType, orgName, orgAbbr, parent, email, phone, location, mission) ==
    [ id |-> 0, name |-> name, rank_title |-> rank, position |-> pos,
      position_type |-> posType, status |-> status, service_agency |-> service,
      organization_type |-> orgType, organization_name |-> orgName,
      organization_abbreviation |-> orgAbbr, parent_organization |-> parent,
      email |-> email, phone |-> phone, location |-> location,
      mission_area |-> mission ]

\* The persons the checked collections are drawn from.  They cover: two
\* persons of one service sharing an organization name with different
\* abbreviation and type, the same organization name in another service, a
\* blank organization name with a parent, both blank, multi-valued mission
\* areas with blanks and empty components, a mission area named twice in
\* one field, a mission area that names a property of Object.prototype, an
\* organization named like the fallback key, blank tracked fields.  Every
\* field is trimmed, as ingestion leaves it.
PoolRows ==
    << Person(<<"a","b">>, "MG", "Executive", "PAE", "Confirmed", "Army",
             "PAE", "LRFE", "PAE LRFE", "ASA(ALT)", "a@mil", "555",
             "Redstone", <<"A", ",", " ", "B">>),
      Person(<<"b","a","b">>, "", "Deputy", "CPE", "Acting", "Army",
             "CPE", "LRFE", "CPE LRFE", "", "", "", "", <<"B">>),
      Person(<<"b","a">>, "COL", "", "PM", "Confirmed", "Army",
             "PM", "", "", "ASA(ALT)", "", "", "Pentagon", <<>>),
      Person(<<"a","a">>, "", "", "Other", "Confirmed", "Navy",
             "", "", "", "", "", "", "Pentagon", <<"A", ",", ",">>),
      Person(<<"b","b">>, "CAPT", "Manager", "PM", "Acting", "Navy",
             "PM", "LRFE", "", "", "", "", "Redstone", <<"B", " ", ",", "A">>),
      Person(<<"a","b","a">>, "", "Chief", "PAE", "PTDO", "Army",
             "PAE", "Aviation", "AVN", "", "", "", "", <<"A">>),
      Person(<<"b","b","a">>, "", "", "Other", "Confirmed", "Navy",
             "", "", "", "", "", "", "", <<"A", ",", "A">>),
      Person(<<"b","b","b">>, "", "", "Other", "Confirmed", "Navy",
             "", "Unknown", "", "", "", "", "",
             <<"c","o","n","s","t","r","u","c","t","o","r">>) >>

PersonPool == {PoolRows[i] : i \in 1..Len(PoolRows)}

\* the collections drawn directly carry pairwise distinct ids: the position in
\* ingestion order
MkPeople(rows) == [i \in 1..Len(rows) |-> [rows[i] EXCEPT !.id = i]]

Collections(pool, n) ==
    {MkPeople(rows) : rows \in UNION {[1..k -> pool] : k \in 0..n}}

\* the persons the filter is checked on
FilterPool == {PoolRows[1], PoolRows[3], PoolRows[4], PoolRows[5]}

RelationshipPool ==
    { [ child_entity |-> "LRFE", child_type |-> "PAE",
        parent_entity |-> "ASA(ALT)", parent_type |-> "Office",
        relationship_type |-> "reports_to" ] }

RelationshipTables == { <<>> } \cup {<<r>> : r \in RelationshipPool}

-----------------------------------------------------------------------------
(* utils/dataLoader: buildOrgTree *)

\* person.organization_name || person.parent_organization || 'Unknown'
OrgKey(person) ==
    IF person.organization_name # "" THEN person.organization_name
    ELSE IF person.parent_organization # "" THEN person.parent_organization
    ELSE "Unknown"

\* the Organization object set on first sight of a key; personnel starts empty.
\* Its id (a slug with a random suffix) takes no part in grouping or ordering
\* and is left out.
NewOrganization(orgKey, person, service) ==
    [ name |-> orgKey,
      abbreviation |-> person.organization_abbreviation,
      type |-> person.organization_type,
      service |-> service,
      children |-> <<>>,
      personnel |-> <<>> ]

\* serviceOrgs.has(orgKey): serviceOrgs is a Map in insertion order
HasOrg(serviceOrgs, orgKey) ==
    \E i \in 1..Len(serviceOrgs) : serviceOrgs[i].name = orgKey

\* serviceOrgs.get(orgKey)!.personnel.push(person)
PushPerson(serviceOrgs, orgKey, person) ==
    [i \in 1..Len(serviceOrgs) |->
        IF serviceOrgs[i].name = orgKey
        THEN [serviceOrgs[i] EXCEPT !.personnel = Append(@, person)]
        ELSE serviceOrgs[i]]

GroupPerson_SkipFirst(serviceOrgs, person, service) ==
    LET orgKey == OrgKey(person)
    IN  IF ~HasOrg(serviceOrgs, orgKey)
        THEN Append(serviceOrgs, NewOrganization(orgKey, person, service))
        ELSE PushPerson(serviceOrgs, orgKey, person)

GroupPerson_LastWins(serviceOrgs, person, service) ==
    LET orgKey == OrgKey(person)
        fresh  == NewOrganization(orgKey, person, service)
        withOrg ==
            IF ~HasOrg(serviceOrgs, orgKey)
            THEN Append(serviceOrgs, fresh)
            ELSE [i \in 1..Len(serviceOrgs) |->
                    IF serviceOrgs[i].name = orgKey
                    THEN [serviceOrgs[i] EXCEPT
                            !.abbreviation = fresh.abbreviation,
                            !.type = fresh.type]
                    ELSE serviceOrgs[i]]
    IN  PushPerson(withOrg, orgKey, person)

\* body of people.forEach for one person whose service map exists
GroupPerson(serviceOrgs, person, service) ==
    LET orgKey == OrgKey(person)
        withOrg ==
            IF ~HasOrg(serviceOrgs, orgKey)
            THEN Append(serviceOrgs, NewOrganization(orgKey, person, service))
            ELSE serviceOrgs
    IN  PushPerson(withOrg, orgKey, person)

\* one iteration of people.forEach over orgMap
GroupStep(orgMap, person) ==
    LET service == person.service_agency
    IN  IF service \notin DOMAIN orgMap THEN orgMap
        ELSE [orgMap EXCEPT ![service] = GroupPerson(@, person, service)]

\* people.forEach over orgMap, in order (the test next = next makes the
\* evaluation of each iteration happen before the following one)
RECURSIVE GroupAll(_, _)
GroupAll(orgMap, persons) ==
    IF persons = <<>> THEN orgMap
    ELSE LET next == GroupStep(orgMap, Head(persons))
         IN  IF next = next THEN GroupAll(next, Tail(persons)) ELSE orgMap

\* result.set(service, Array.from(orgs.values())) for every service: the
\* organizations of each service in the insertion order of its Map
buildOrgTree(peopleData) ==
    GroupAll([s \in ServiceSet |-> <<>>], peopleData)

\* new Map()
EmptyOrgTree == [s \in {} |-> <<>>]

-----------------------------------------------------------------------------
(* components/org/OrgExplorer: typePriority *)

\* typePriority[type] ?? 99
TypePriority(type) ==
    CASE type = "PAE" -> 0
      [] type = "CPE" -> 1
      [] type = "PEO" -> 2
      [] type = "PM"  -> 3
      [] OTHER        -> 99

\* a.name.localeCompare(b.name) < 0 on the organization names of the model,
\* listed here in collation order
NameOrder == << "ASA(ALT)", "Aviation", "LRFE", "Unassigned", "Unknown" >>

NameRank(name) == CHOOSE i \in 1..Len(NameOrder) : NameOrder[i] = name

\* the comparator of OrgExplorer's sort puts a before b, or ties them
OrgBeforeOrEqual(a, b) ==
    LET priorityA == TypePriority(a.type)
        priorityB == TypePriority(b.type)
    IN  IF priorityA # priorityB THEN priorityA < priorityB
        ELSE NameRank(a.name) <= NameRank(b.name)

\* person.organization_name || person.parent_organization || 'Unassigned'
ExplorerOrgKey(person) ==
    IF person.organization_name # "" THEN person.organization_name
    ELSE IF person.parent_organization # "" THEN person.parent_organization
    ELSE "Unassigned"

\* the Organization object OrgExplorer sets on first sight of a key; its id
\* takes no part in grouping or ordering and is left out
ExplorerOrganization(orgKey, person, selectedService) ==
    [ name |-> orgKey,
      abbreviation |-> person.organization_abbreviation,
      type |-> person.organization_type,
      service |-> selectedService,
      children |-> <<>>,
      personnel |-> <<>> ]

\* the forEach callback of serviceOrgs
ExplorerGroupPerson(orgMap, person, selectedService) ==
    LET orgKey == ExplorerOrgKey(person)
        withOrg ==
            IF ~HasOrg(orgMap, orgKey)
            THEN Append(orgMap, ExplorerOrganization(orgKey, person, selectedService))
            ELSE orgMap
    IN  PushPerson(withOrg, orgKey, person)

RECURSIVE ExplorerGroupAll(_, _, _)
ExplorerGroupAll(orgMap, persons, selectedService) ==
    IF persons = <<>> THEN orgMap
    ELSE ExplorerGroupAll(ExplorerGroupPerson(orgMap, Head(persons), selectedService),
                          Tail(persons), selectedService)

\* the stable sort places o before the first organization it strictly precedes
RECURSIVE InsertOrg(_, _)
InsertOrg(sorted, o) ==
    IF sorted = <<>> THEN <<o>>
    ELSE IF ~OrgBeforeOrEqual(Head(sorted), o) THEN <<o>> \o sorted
    ELSE <<Head(sorted)>> \o InsertOrg(Tail(sorted), o)

\* Array.from(orgMap.values()).sort(comparator)
RECURSIVE SortOrgs(_)
SortOrgs(orgs) ==
    IF orgs = <<>> THEN <<>>
    ELSE InsertOrg(SortOrgs(SubSeq(orgs, 1, Len(orgs) - 1)), orgs[Len(orgs)])

\* people.filter((p) => p.service_agency === selectedService)
RECURSIVE FilterService(_, _)
FilterService(persons, selectedService) ==
    IF persons = <<>> THEN <<>>
    ELSE (IF Head(persons).service_agency = selectedService
          THEN <<Head(persons)>> ELSE <<>>)
             \o FilterService(Tail(persons), selectedService)

\* the serviceOrgs memo of OrgExplorer
serviceOrgs(peopleData, selectedService) ==
    SortOrgs(ExplorerGroupAll(<<>>, FilterService(peopleData, selectedService),
                              selectedService))

-----------------------------------------------------------------------------
(* utils/dataLoader: calculateStats *)

TrackedFields ==
    << "name", "rank_title", "position", "email", "phone", "location",
       "organization_name", "mission_area" >>

CharFields == {"name", "mission_area"}

\* if (person[field]): a non-empty string
Truthy(person, field) ==
    IF field \in CharFields THEN person[field] # <<>> ELSE person[field] # ""

\* the properties every object literal inherits from Object.prototype
ObjectPrototypeKeys == {"constructor"}

\* the same property names as character sequences
ObjectPrototypeSpelled == { <<"c","o","n","s","t","r","u","c","t","o","r">> }

\* (f || 0) + 1 for an inherited function f, and s + 1 for a string s, is a
\* string and not a count; the model holds it as this value
StringResult == 0 - 1

\* (value || 0) + 1 for the value of an own property
PlusOne(value) == IF value = StringResult THEN StringResult ELSE value + 1

\* (obj[key] || 0) + 1 when obj has no own property key: obj[key] is
\* undefined, or the property obj inherits under that name
FirstCount(inherited) == IF inherited THEN StringResult ELSE 1

Bump_Reset(obj, key) ==
    IF key \in DOMAIN obj THEN [obj EXCEPT ![key] = 1] ELSE obj @@ (key :> 1)

\* obj[key] = (obj[key] || 0) + 1, on a bucket object created as {}
Bump(obj, key) ==
    IF key \in DOMAIN obj THEN [obj EXCEPT ![key] = PlusOne(@)]
    ELSE obj @@ (key :> FirstCount(key \in ObjectPrototypeKeys))

\* callback of person.mission_area.split(',').forEach; the key is a
\* character sequence
BumpArea(obj, area) ==
    LET trimmed == Trim(area)
    IN  IF trimmed = <<>> THEN obj
        ELSE IF trimmed \in DOMAIN obj
        THEN [obj EXCEPT ![trimmed] = PlusOne(@)]
        ELSE obj @@ (trimmed :> FirstCount(trimmed \in ObjectPrototypeSpelled))

\* person.mission_area.split(',').forEach
RECURSIVE BumpAreas(_, _)
BumpAreas(obj, areas) ==
    IF areas = <<>> THEN obj
    ELSE BumpAreas(BumpArea(obj, Head(areas)), Tail(areas))

\* Object.keys(fieldCounts).forEach: count the fields the person populates
RECURSIVE BumpFields(_, _, _)
BumpFields(counts, person, fields) ==
    IF fields = <<>> THEN counts
    ELSE BumpFields(
            IF Truthy(person, Head(fields))
            THEN [counts EXCEPT ![Head(fields)] = @ + 1] ELSE counts,
            person, Tail(fields))

\* body of people.forEach in calculateStats; acc = [stats, fieldCounts]
StatsStep(acc, person) ==
    LET st == acc.stats
        posType == IF person.position_type # "" THEN person.position_type ELSE "Other"
    IN  [ stats |->
            [st EXCEPT
               !.byService = Bump(@, person.service_agency),
               !.byPositionType = Bump(@, posType),
               !.byStatus = Bump(@, person.status),
               !.byMissionArea =
                   IF person.mission_area # <<>>
                   THEN BumpAreas(@, Split(person.mission_area, ","))
                   ELSE @],
          fieldCounts |-> BumpFields(acc.fieldCounts, person, TrackedFields) ]

NaN == [nan |-> TRUE, tenths |-> 0]

\* Math.round((count / total) * 1000) / 10, held in tenths of a percent;
\* 0 / 0 is NaN and stays NaN through Math.round
Percentage(count, total) ==
    IF total = 0 THEN NaN
    ELSE [nan |-> FALSE, tenths |-> (2 * 1000 * count + total) \div (2 * total)]

EmptyObject == [k \in {} |-> 0]

\* people.forEach in calculateStats, in order
RECURSIVE StatsAll(_, _)
StatsAll(acc, persons) ==
    IF persons = <<>> THEN acc
    ELSE LET next == StatsStep(acc, Head(persons))
         IN  IF next = next THEN StatsAll(next, Tail(persons)) ELSE acc

calculateStats(peopleData) ==
    LET init ==
            [ stats |->
                [ totalRecords |-> Len(peopleData),
                  totalRelationships |-> 0,
                  byService |-> EmptyObject,
                  byPositionType |-> EmptyObject,
                  byStatus |-> EmptyObject,
                  byMissionArea |-> EmptyObject,
                  fieldsPopulated |-> EmptyObject ],
              fieldCounts |->
                [f \in {TrackedFields[i] : i \in 1..Len(TrackedFields)} |-> 0] ]
        done == StatsAll(init, peopleData)
    IN  [done.stats EXCEPT
           !.fieldsPopulated =
               [f \in DOMAIN done.fieldCounts |->
                   [ count |-> done.fieldCounts[f],
                     percentage |-> Percentage(done.fieldCounts[f], Len(peopleData)) ]]]

-----------------------------------------------------------------------------
(* utils/dataLoader: ingestion (generateId, normalizeService, loadPeopleData) *)

UpperCase ==
    << "A","B","C","D","E","F","G","H","I","J","K","L","M",
       "N","O","P","Q","R","S","T","U","V","W","X","Y","Z" >>

LowerCase ==
    << "a","b","c","d","e","f","g","h","i","j","k","l","m",
       "n","o","p","q","r","s","t","u","v","w","x","y","z" >>

Digits == << "0","1","2","3","4","5","6","7","8","9" >>

\* String.prototype.toLowerCase, one character
LowerChar(c) ==
    IF \E i \in 1..26 : UpperCase[i] = c
    THEN LowerCase[CHOOSE i \in 1..26 : UpperCase[i] = c]
    ELSE c

\* String.prototype.toLowerCase
ToLowerCase(s) == [i \in 1..Len(s) |-> LowerChar(s[i])]

\* the characters the class [a-z0-9] holds
IsLowerAlnum(c) ==
    \/ \E i \in 1..26 : LowerCase[i] = c
    \/ \E i \in 1..10 : Digits[i] = c

\* the characters of the strings that the model holds as TLA+ strings
Spelling ==
    [ Army        |-> <<"A","r","m","y">>,
      Navy        |-> <<"N","a","v","y">>,
      Marines     |-> <<"M","a","r","i","n","e","s">>,
      OSD         |-> <<"O","S","D">>,
      SOCOM       |-> <<"S","O","C","O","M">>,
      MDA         |-> <<"M","D","A">>,
      DLA         |-> <<"D","L","A">>,
      DISA        |-> <<"D","I","S","A">>,
      DTRA        |-> <<"D","T","R","A">>,
      DARPA       |-> <<"D","A","R","P","A">>,
      DCMA        |-> <<"D","C","M","A">>,
      DHA         |-> <<"D","H","A">>,
      NGA         |-> <<"N","G","A">>,
      NSA         |-> <<"N","S","A">>,
      DIA         |-> <<"D","I","A">>,
      Unknown     |-> <<"U","n","k","n","o","w","n">>,
      Other       |-> <<"O","t","h","e","r">>,
      Confirmed   |-> <<"C","o","n","f","i","r","m","e","d">>,
      acting      |-> <<"a","c","t","i","n","g">>,
      Acting      |-> <<"A","c","t","i","n","g">>,
      PTDO        |-> <<"P","T","D","O">>,
      PM          |-> <<"P","M">>,
      PAE         |-> <<"P","A","E">>,
      CPE         |-> <<"C","P","E">>,
      LRFE        |-> <<"L","R","F","E">>,
      Aviation    |-> <<"A","v","i","a","t","i","o","n">>,
      undefined   |-> <<"u","n","d","e","f","i","n","e","d">>,
      constructor |-> <<"c","o","n","s","t","r","u","c","t","o","r">> ]
    @@ ("Air Force"   :> <<"A","i","r"," ","F","o","r","c","e">>)
    @@ ("Space Force" :> <<"S","p","a","c","e"," ","F","o","r","c","e">>)

\* the TLA+ string a character sequence spells
Text(chars) ==
    IF chars = <<>> THEN ""
    ELSE CHOOSE w \in DOMAIN Spelling : Spelling[w] = chars

\* the keys of serviceMap
ServiceMapKeys == ServiceSet \ {"Unknown"}

\* what an inherited property yields when it is used as a string
InheritedValue == "function Object() { [native code] }"

\* normalizeService: serviceMap[normalized] || 'Unknown'.  The lookup is by
\* exact key; a key that Object.prototype defines yields the inherited value.
normalizeService(service) ==
    LET normalized == Trim(service)
    IN  IF \E k \in ServiceMapKeys : Spelling[k] = normalized
        THEN CHOOSE k \in ServiceMapKeys : Spelling[k] = normalized
        ELSE IF \E k \in ObjectPrototypeKeys : Spelling[k] = normalized
        THEN InheritedValue
        ELSE "Unknown"

\* a parsed row is an object keyed by the columns the row has a cell for
\* ${row.field}: the cell, or 'undefined'
Interpolate(row, field) ==
    IF field \in DOMAIN row THEN row[field] ELSE Spelling["undefined"]

\* row.field?.trim() || ''
TrimmedCell(row, field) ==
    IF field \in DOMAIN row THEN Trim(row[field]) ELSE <<>>

TextCell_DeclaredOnly(row, field, fallback) ==
    IF TrimmedCell(row, field) \in {<<>>, Spelling["acting"]} THEN fallback
    ELSE Text(TrimmedCell(row, field))

\* (row.field?.trim() || fallback), as a TLA+ string
TextCell(row, field, fallback) ==
    IF TrimmedCell(row, field) = <<>> THEN fallback
    ELSE Text(TrimmedCell(row, field))

\* length the slug of an id is cut to
IdSlugLen == 50

\* .replace(/[^a-z0-9]/g, '-')
Dashed(s) == [i \in 1..Len(s) |-> IF IsLowerAlnum(s[i]) THEN s[i] ELSE "-"]

\* generateId; random is what Math.random().toString(36).substring(2, 8) gave
generateId(name, org, position, random) ==
    LET str == Dashed(ToLowerCase(name \o <<"-">> \o org \o <<"-">> \o position))
    IN  SubSeq(str, 1, Min(Len(str), IdSlugLen)) \o <<"-">> \o random

NameKept_Truthy(row) == "name" \in DOMAIN row /\ row.name # <<>>

\* the filter callback: row.name && row.name.trim()
NameKept(row) ==
    "name" \in DOMAIN row /\ row.name # <<>> /\ Trim(row.name) # <<>>

\* results.data.filter(...)
KeptRows(rows) == SelectSeq(rows, NameKept)

\* the map callback of loadPeopleData
RowToPerson(row, random) ==
    [ id |-> generateId(Interpolate(row, "name"),
                        Interpolate(row, "organization_name"),
                        Interpolate(row, "position"), random),
      name |-> TrimmedCell(row, "name"),
      rank_title |-> TextCell(row, "rank_title", ""),
      position |-> TextCell(row, "position", ""),
      position_type |-> TextCell(row, "position_type", "Other"),
      status |-> TextCell(row, "status", "Confirmed"),
      service_agency |->
          normalizeService(IF "service_agency" \in DOMAIN row
                           THEN row.service_agency ELSE <<>>),
      organization_type |-> TextCell(row, "organization_type", ""),
      organization_name |-> TextCell(row, "organization_name", ""),
      organization_abbreviation |-> TextCell(row, "organization_abbreviation", ""),
      parent_organization |-> TextCell(row, "parent_organization", ""),
      email |-> TextCell(row, "email", ""),
      phone |-> TextCell(row, "phone", ""),
      location |-> TextCell(row, "location", ""),
      mission_area |-> TrimmedCell(row, "mission_area") ]

\* the value loadPeopleData resolves with; randoms[i] is the draw of
\* Math.random for the i-th kept row
loadPeopleData(rows, randoms) ==
    LET kept == KeptRows(rows)
    IN  [i \in 1..Len(kept) |-> RowToPerson(kept[i], randoms[i])]

\* the value loadRelationships resolves with: results.data as parsed
loadRelationships(rows) == rows

\* ---------------------------------------------------------------------------
\* getUniqueValues
\* ---------------------------------------------------------------------------

\* the characters of the model in ascending order of their UTF-16 code unit
CodeUnits ==
    <<" ", "(", ")", ",", "-">> \o Digits \o <<"@">> \o UpperCase \o LowerCase

\* the place of a character in that order
CodeUnit(c) == CHOOSE i \in 1..Len(CodeUnits) : CodeUnits[i] = c

\* the comparison of the default Array.prototype.sort: a < b as strings,
\* code unit by code unit
RECURSIVE CodeUnitLess(_, _)
CodeUnitLess(a, b) ==
    IF b = <<>> THEN FALSE
    ELSE IF a = <<>> THEN TRUE
    ELSE IF Head(a) = Head(b) THEN CodeUnitLess(Tail(a), Tail(b))
    ELSE CodeUnit(Head(a)) < CodeUnit(Head(b))

RECURSIVE InsertValue(_, _)
InsertValue(sorted, v) ==
    IF sorted = <<>> THEN <<v>>
    ELSE IF CodeUnitLess(v, Head(sorted)) THEN <<v>> \o sorted
    ELSE <<Head(sorted)>> \o InsertValue(Tail(sorted), v)

RECURSIVE SortValues(_)

SortValues_Unsorted(values) == values

\* Array.from(values).sort()
SortValues(values) ==
    IF values = <<>> THEN <<>>
    ELSE InsertValue(SortValues(SubSeq(values, 1, Len(values) - 1)),
                     values[Len(values)])

\* values.add(v): a Set keeps one copy, in insertion order
AddValue(values, v) ==
    IF \E i \in 1..Len(values) : values[i] = v THEN values
    ELSE Append(values, v)

\* value.split(',').forEach(...) of getUniqueValues
RECURSIVE AddParts(_, _)
AddParts(values, parts) ==
    IF parts = <<>> THEN values
    ELSE AddParts(IF Trim(Head(parts)) # <<>>
                  THEN AddValue(values, Trim(Head(parts))) ELSE values,
                  Tail(parts))

\* person[field], as characters
FieldChars(person, field) ==
    IF field \in CharFields THEN person[field] ELSE Spelling[person[field]]

\* the forEach callback of getUniqueValues
UniqueStep(values, person, field) ==
    IF ~Truthy(person, field) THEN values
    ELSE IF field = "mission_area"
    THEN AddParts(values, Split(person.mission_area, ","))
    ELSE AddValue(values, FieldChars(person, field))

RECURSIVE UniqueAll(_, _, _)
UniqueAll(persons, field, values) ==
    IF persons = <<>> THEN values
    ELSE UniqueAll(Tail(persons), field, UniqueStep(values, Head(persons), field))

getUniqueValues(persons, field) == SortValues(UniqueAll(persons, field, <<>>))

\* the fields PeopleDirectory lists the values of, and the other string
\* fields the checks ask for
UniqueFields ==
    {"service_agency", "position_type", "status", "mission_area", "name",
     "organization_name"}

\* What one request delivered.  fetch rejects only when no response arrives
\* ("networkError"); a response with an error status resolves like any other
\* and its body is parsed as the table ("httpError": rows are what the parser
\* makes of the error page); the parser reports a failure to read its input
\* through the error callback ("readError").  rows is results.data.
Response(kind, rows) == [kind |-> kind, rows |-> rows]

\* the promise of loadPeopleData / loadRelationships rejects
Rejects(response) == response.kind \in {"networkError", "readError"}

\* results.data for the body of an error response: a one-line body is a
\* header without rows, a longer one gives rows under the columns its first
\* line names
ErrorPageRows == { <<>>, << ("<html>" :> <<"4", "0", "4">>) >> }

RawRow(name, service, org, position, posType, status, mission) ==
    [ name |-> name, service_agency |-> service, organization_name |-> org,
      position |-> position, position_type |-> posType, status |-> status,
      mission_area |-> mission ]

\* The rows the checked tables are drawn from.  They cover: a complete row,
\* a service in another letter case with blanks around it, a service in
\* lower case, a service with a trailing blank, a service naming a property
\* of Object.prototype, a name of blanks, an empty name, a row too short to
\* have a name cell, blank position type and status, a position type and a
\* status outside the declared enums.
RawRows ==
    << RawRow(<<"a","b">>, Spelling["Army"], Spelling["LRFE"], Spelling["PM"],
              Spelling["PM"], Spelling["Confirmed"], <<"A", ",", " ", "B">>),
       RawRow(<<" ","b","a"," ">>, <<" ","A","R","M","Y"," ">>, <<>>, <<>>,
              <<" ">>, Spelling["acting"], <<>>),
       RawRow(<<" ", " ">>, Spelling["Navy"], Spelling["LRFE"], Spelling["PM"],
              Spelling["PM"], Spelling["Confirmed"], <<"A">>),
       RawRow(<<>>, Spelling["Navy"], Spelling["LRFE"], <<>>, <<>>, <<>>, <<"B">>),
       RawRow(<<"b">>, <<"a","r","m","y">>, Spelling["LRFE"], <<>>,
              <<" ","L","R","F","E">>, <<>>, <<>>),
       RawRow(<<"a">>, <<"N","a","v","y"," ">>, <<>>, Spelling["PM"], <<>>, <<>>, <<"A">>),
       RawRow(<<"a","a">>, Spelling["constructor"], <<>>, <<>>, <<>>, <<>>, <<>>),
       [ service_agency |-> Spelling["Army"] ] >>

RawPool == {RawRows[i] : i \in 1..Len(RawRows)}

\* longest table drawn for the ingestion checks
MaxRows == 2
RawTables == UNION {[1..k -> RawPool] : k \in 0..MaxRows}

\* outcomes of Math.random().toString(36).substring(2, 8): two of them
RandomSuffixes == { <<"k", "3", "x", "9", "q", "0">>, <<"7", "h">> }

PeopleResponses ==
    {Response("ok", rows) : rows \in RawTables}
    \cup {Response("httpError", rows) : rows \in ErrorPageRows}
    \cup {Response("networkError", <<>>), Response("readError", <<>>)}

RelationshipResponses ==
    {Response("ok", rows) : rows \in RelationshipTables}
    \cup {Response("httpError", rows) : rows \in ErrorPageRows}
    \cup {Response("networkError", <<>>)}

-----------------------------------------------------------------------------
(* hooks/useData: DataProvider *)

InitData ==
    /\ people = <<>>
    /\ relationships = <<>>
    /\ orgTree = EmptyOrgTree
    /\ stats = None
    /\ isLoading = TRUE
    /\ error = None
    /\ loadPc = "loading"
    /\ source = None

LoadSucceed_StaleTree(peopleData, relationshipsData) ==
    /\ loadPc = "loading"
    /\ people' = peopleData
    /\ relationships' = relationshipsData
    /\ stats' = Some(calculateStats(peopleData))
    /\ isLoading' = FALSE
    /\ loadPc' = "settled"
    /\ UNCHANGED <<error, orgTree>>

\* Promise.all resolved: the try block runs to its end, then finally
LoadSucceed(peopleData, relationshipsData) ==
    /\ loadPc = "loading"
    /\ people' = peopleData
    /\ relationships' = relationshipsData
    /\ orgTree' = buildOrgTree(peopleData)
    /\ stats' = Some(calculateStats(peopleData))
    /\ isLoading' = FALSE
    /\ loadPc' = "settled"
    /\ UNCHANGED error

\* Promise.all rejected: catch, then finally
LoadFail(message) ==
    /\ loadPc = "loading"
    /\ error' = Some(message)
    /\ isLoading' = FALSE
    /\ loadPc' = "settled"
    /\ UNCHANGED <<people, relationships, orgTree, stats>>

LoadErrors == {"Failed to fetch", "Failed to load data"}

-----------------------------------------------------------------------------
(* hooks/useSearch: useFilteredData *)

\* an optional category is None (absent) or Some(list); it constrains the
\* result when it is present and non-empty
Active(category) == category # None /\ Len(category[1]) > 0

MissionAreaKept_WholeField(p, wanted) == Includes(wanted, p.mission_area)

\* the missionAreas callback: split, trim, then
\* filters.missionAreas!.some((area) => areas.includes(area))
MissionAreaKept(p, wanted) ==
    LET areas == MissionAreas(p.mission_area)
    IN  \E k \in 1..Len(wanted) : Includes(areas, wanted[k])

CopyOf_Reversed(data) == [i \in 1..Len(data) |-> data[Len(data) + 1 - i]]

\* [...data]
CopyOf(data) == data

\* the memoized body: a copy of data narrowed by each active category in turn
useFilteredData(data, f) ==
    LET f0 == CopyOf(data)
        f1 == IF Active(f.services)
              THEN SelectSeq(f0, LAMBDA p : Includes(f.services[1], p.service_agency))
              ELSE f0
        f2 == IF Active(f.positionTypes)
              THEN SelectSeq(f1, LAMBDA p : Includes(f.positionTypes[1], p.position_type))
              ELSE f1
        f3 == IF Active(f.statuses)
              THEN SelectSeq(f2, LAMBDA p : Includes(f.statuses[1], p.status))
              ELSE f2
        f4 == IF Active(f.missionAreas)
              THEN SelectSeq(f3, LAMBDA p : MissionAreaKept(p, f.missionAreas[1]))
              ELSE f3
        f5 == IF Active(f.locations)
              THEN SelectSeq(f4, LAMBDA p : Includes(f.locations[1], p.location))
              ELSE f4
    IN  f5

\* PeopleDirectory's initial filter state
NoFilters ==
    [ services |-> Some(<<>>), positionTypes |-> Some(<<>>),
      statuses |-> Some(<<>>), missionAreas |-> None, locations |-> None ]

\* the criteria the filter is checked on
FilterInputs ==
    [ services : {None, Some(<<>>), Some(<<"Army">>), Some(<<"Army", "Navy">>)},
      positionTypes : {Some(<<>>), Some(<<"PM">>)},
      statuses : {Some(<<>>), Some(<<"Confirmed">>)},
      missionAreas : {None, Some(<<>>), Some(<< <<"A">> >>),
                      Some(<< <<"A">>, <<"B">> >>),
                      Some(<< <<"B">>, <<"A", ",", " ", "B">> >>)},
      locations : {None, Some(<<"Pentagon">>)} ]

InitFilter ==
    /\ filters = NoFilters
    /\ filteredData = useFilteredData(<<>>, NoFilters)

\* a render with new criteria, one category changed: useMemo recomputes on
\* [data, filters]
SetFilters(f) ==
    /\ Cardinality({c \in DOMAIN f : f[c] # filters[c]}) = 1
    /\ filters' = f
    /\ filteredData' = useFilteredData(people, f)
    /\ UNCHANGED <<dataVars, searchVars>>

-----------------------------------------------------------------------------
(* hooks/useSearch: useSearch *)

MinQueryLen == 2
DebounceMs  == 150
SearchLimit == 50

\* new Fuse(data, fuseOptions): the index holds the collection it was built from
NewFuse(data) == [docs |-> data]

\* Offsets at which the pattern occurs in the text.  The fuzzy matcher is a
\* library; the model keeps of it what the hook relies on: a deterministic
\* ranking of the indexed records for a pattern, best (lowest) score first.
\* Here a record matches when the pattern occurs in its name (the key of
\* highest weight) and its score is the offset of the first occurrence.
MatchOffsets(text, pattern) ==
    {i \in 0..(Len(text) - Len(pattern)) :
        SubSeq(text, i + 1, i + Len(pattern)) = pattern}

FuseScore(doc, pattern) ==
    LET offs == MatchOffsets(doc.name, pattern)
    IN  CHOOSE i \in offs : \A j \in offs : i <= j

\* the records of the index that match with score sc, as SearchResults in
\* index order
Bucket(index, pattern, sc) ==
    LET refs == [i \in 1..Len(index.docs) |-> i]
        at == SelectSeq(refs, LAMBDA i :
                  /\ MatchOffsets(index.docs[i].name, pattern) # {}
                  /\ FuseScore(index.docs[i], pattern) = sc)
    IN  [k \in 1..Len(at) |->
            [item |-> index.docs[at[k]], score |-> sc, refIndex |-> at[k] - 1]]

RECURSIVE RankedFrom(_, _, _, _)
RankedFrom(index, pattern, sc, maxScore) ==
    IF sc > maxScore THEN <<>>
    ELSE Bucket(index, pattern, sc) \o RankedFrom(index, pattern, sc + 1, maxScore)

\* every matching record as a SearchResult, by ascending score, then by index
FuseRanked(index, pattern) ==
    LET n == Len(index.docs)
        longest == IF n = 0 THEN 0
                   ELSE CHOOSE m \in {Len(index.docs[i].name) : i \in 1..n} :
                            \A i \in 1..n : Len(index.docs[i].name) <= m
    IN  RankedFrom(index, pattern, 0, longest)

FuseSearch_NoLimit(index, pattern, limit) == FuseRanked(index, pattern)

\* fuse.search(query, { limit })
FuseSearch(index, pattern, limit) ==
    LET ranked == FuseRanked(index, pattern)
    IN  SubSeq(ranked, 1, Min(Len(ranked), limit))

ShortQuery_OffByOne(q) == q = <<>> \/ Len(q) < MinQueryLen - 1

ShortQuery_Inclusive(q) == q = <<>> \/ Len(q) <= MinQueryLen

\* !query || query.length < 2
ShortQuery(q) == q = <<>> \/ Len(q) < MinQueryLen

EffectCleanup_Missing(pending, registered) == pending

\* the cleanup the previous effect run returned: clearTimeout(timeoutId), or
\* nothing when that run took the short-query branch
EffectCleanup(pending, registered) ==
    IF registered = None THEN pending
    ELSE {t \in pending : t.id # registered[1]}

\* the handle setTimeout returns: one no pending timer carries
FreshTimerId(pending) ==
    CHOOSE i \in 1..(Cardinality(pending) + 1) :
        /\ \A t \in pending : t.id # i
        /\ \A j \in 1..(i - 1) : \E t \in pending : t.id = j

InitSearch ==
    /\ query = <<>>
    /\ results = <<>>
    /\ isSearching = FALSE
    /\ fuse = NewFuse(<<>>)
    /\ timers = {}
    /\ cleanup = None
    /\ effectDue = "none"
    /\ quietMs = DebounceMs
    /\ lastEval = [ran |-> FALSE, query |-> <<>>, queryNow |-> <<>>,
                   indexCurrent |-> TRUE, quiet |-> DebounceMs, cancelled |-> FALSE,
                   cleared |-> FALSE, untouched |-> FALSE]

\* setQuery(q) from an input event.  Setting the same string renders nothing.
\* The render it causes comes from a discrete event, so React runs the effect
\* of that render before the task ends (effectDue = "sync"): no timer
\* callback runs in between.
SetQuery(q) ==
    /\ effectDue = "none"
    /\ q # query
    /\ query' = q
    /\ effectDue' = "sync"
    /\ quietMs' = 0
    /\ lastEval' = [lastEval EXCEPT !.untouched = FALSE]
    /\ UNCHANGED <<results, isSearching, fuse, timers, cleanup>>
    /\ UNCHANGED <<dataVars, filterVars>>

ClearSearch_KeepsResults ==
    /\ effectDue = "none"
    /\ query' = <<>>
    /\ effectDue' = IF query # <<>> THEN "sync" ELSE effectDue
    /\ quietMs' = IF query # <<>> THEN 0 ELSE quietMs
    /\ lastEval' = [lastEval EXCEPT !.cleared = TRUE, !.untouched = TRUE]
    /\ UNCHANGED <<results, isSearching, fuse, timers, cleanup>>
    /\ UNCHANGED <<dataVars, filterVars>>

\* clearSearch(): setQuery(''); setResults([]).  lastEval notes that the
\* search was cleared (until a timer callback writes results) and that no
\* query was set since
ClearSearch ==
    /\ effectDue = "none"
    /\ query' = <<>>
    /\ results' = <<>>
    /\ effectDue' = IF query # <<>> THEN "sync" ELSE effectDue
    /\ quietMs' = IF query # <<>> THEN 0 ELSE quietMs
    /\ lastEval' = [lastEval EXCEPT !.cleared = TRUE, !.untouched = TRUE]
    /\ UNCHANGED <<isSearching, fuse, timers, cleanup>>
    /\ UNCHANGED <<dataVars, filterVars>>

\* the effect on [query, fuse]: the previous run's cleanup, then the body
RunEffect ==
    /\ effectDue # "none"
    /\ LET pending == EffectCleanup(timers, cleanup)
           id == FreshTimerId(pending)
       IN  /\ IF ShortQuery(query)
              THEN /\ results' = <<>>
                   /\ isSearching' = FALSE
                   /\ timers' = pending
                   /\ cleanup' = None
              ELSE /\ isSearching' = TRUE
                   /\ timers' = pending \cup
                          {[id |-> id, query |-> query, fuse |-> fuse,
                            remaining |-> DebounceMs]}
                   /\ cleanup' = Some(id)
                   /\ UNCHANGED results
           /\ lastEval' = [lastEval EXCEPT
                             !.cancelled = @ \/ pending # timers]
    /\ effectDue' = "none"
    /\ UNCHANGED <<query, fuse, quietMs>>
    /\ UNCHANGED <<dataVars, filterVars>>

\* the setTimeout callback of the effect run that scheduled t
TimerFires(t) ==
    /\ t \in timers
    /\ t.remaining = 0
    /\ effectDue # "sync"
    /\ results' = FuseSearch(t.fuse, t.query, SearchLimit)
    /\ isSearching' = FALSE
    /\ timers' = timers \ {t}
    /\ lastEval' = [lastEval EXCEPT
                      !.ran = TRUE, !.query = t.query, !.queryNow = query,
                      !.indexCurrent = (t.fuse = fuse), !.quiet = quietMs,
                      !.cleared = FALSE]
    /\ UNCHANGED <<query, fuse, cleanup, effectDue, quietMs>>
    /\ UNCHANGED <<dataVars, filterVars>>

\* TickMs of time pass between tasks
Tick ==
    /\ effectDue # "sync"
    /\ quietMs < DebounceMs \/ \E t \in timers : t.remaining > 0
    /\ timers' = {[t EXCEPT !.remaining = Max(0, @ - TickMs)] : t \in timers}
    /\ quietMs' = Min(DebounceMs, quietMs + TickMs)
    /\ UNCHANGED <<query, results, isSearching, fuse, cleanup, effectDue, lastEval>>
    /\ UNCHANGED <<dataVars, filterVars>>

-----------------------------------------------------------------------------
(* The application: DataProvider with its consumers *)

\* the load resolves; the consumers of the context render with the new people:
\* useSearch rebuilds its index (useMemo on [data]) and its effect is due after
\* that render (not a discrete event: "async"), useFilteredData recomputes
AppLoadSucceed(peopleData, relationshipsData) ==
    /\ effectDue = "none"
    /\ LoadSucceed(peopleData, relationshipsData)
    /\ fuse' = NewFuse(peopleData)
    /\ effectDue' = "async"
    /\ filteredData' = useFilteredData(peopleData, filters)
    /\ UNCHANGED <<query, results, isSearching, timers, cleanup, quietMs, lastEval>>
    /\ UNCHANGED filters

\* the load rejects; people keeps its reference, so no index is rebuilt
AppLoadFail(message) ==
    /\ effectDue = "none"
    /\ LoadFail(message)
    /\ UNCHANGED <<searchVars, filterVars>>

\* a load drawn at the level of the resolved promises: the values
\* loadPeopleData and loadRelationships resolved with, or a rejection
ParsedLoadSucceed(peopleData, relationshipsData) ==
    /\ AppLoadSucceed(peopleData, relationshipsData)
    /\ UNCHANGED source

ParsedLoadFail(message) ==
    /\ AppLoadFail(message)
    /\ UNCHANGED source

\* a load drawn at the level of the two requests: what each request
\* delivered, and the draws of Math.random.  Promise.all resolves when both
\* promises do
LoadResolves(peopleResponse, relationshipsResponse, randoms) ==
    /\ loadPc = "loading"
    /\ ~Rejects(peopleResponse) /\ ~Rejects(relationshipsResponse)
    /\ source' = Some([ people |-> peopleResponse,
                        relationships |-> relationshipsResponse ])
    /\ AppLoadSucceed(loadPeopleData(peopleResponse.rows, randoms),
                      loadRelationships(relationshipsResponse.rows))

\* Promise.all rejects when one of the promises does
LoadRejects(peopleResponse, relationshipsResponse, message) ==
    /\ loadPc = "loading"
    /\ Rejects(peopleResponse) \/ Rejects(relationshipsResponse)
    /\ source' = Some([ people |-> peopleResponse,
                        relationships |-> relationshipsResponse ])
    /\ AppLoadFail(message)

\* what a view renders: its loading indicator or its content, and the error
\* message it shows (no view reads error from the context)
DashboardView ==
    IF isLoading \/ stats = None
    THEN [shows |-> "Loading analytics...", message |-> None]
    ELSE [shows |-> "content", message |-> None]

PeopleDirectoryView ==
    IF isLoading
    THEN [shows |-> "Loading directory...", message |-> None]
    ELSE [shows |-> "content", message |-> None]

OrgExplorerView ==
    IF isLoading
    THEN [shows |-> "Loading organizations...", message |-> None]
    ELSE [shows |-> "content", message |-> None]

\* the views AppContent renders
Views == {DashboardView, PeopleDirectoryView, OrgExplorerView}

Init == InitData /\ InitSearch /\ InitFilter

\* the collections the search is checked on: none, a few records, and more
\* records than the result cap
SearchDatasets ==
    { <<>>,
      MkPeople(SubSeq(PoolRows, 1, 3)),
      MkPeople([i \in 1..(SearchLimit + MaxExtra) |-> PoolRows[(i % 2) + 1]]) }

Chars == {"a", "b"}

Queries == UNION {[1..k -> Chars] : k \in 0..MaxQueryLen}

Next ==
    \/ \E d \in SearchDatasets, r \in RelationshipTables : ParsedLoadSucceed(d, r)
    \/ \E m \in LoadErrors : ParsedLoadFail(m)
    \/ \E q \in Queries : SetQuery(q)
    \/ ClearSearch
    \/ RunEffect
    \/ \E t \in timers : TimerFires(t)
    \/ Tick

Spec == Init /\ [][Next]_vars

\* the queries of the liveness checks: empty, too short, and two of the
\* shortest length that is searched
LiveQueries == { <<>>, <<"a">>, <<"a", "b">>, <<"b", "a">> }

\* the collections of the liveness checks: none and a few records
LiveDatasets == { <<>>, MkPeople(SubSeq(PoolRows, 1, 3)) }

NextLive ==
    \/ \E d \in LiveDatasets : ParsedLoadSucceed(d, <<>>)
    \/ \E m \in LoadErrors : ParsedLoadFail(m)
    \/ \E q \in LiveQueries : SetQuery(q)
    \/ ClearSearch
    \/ RunEffect
    \/ \E t \in timers : TimerFires(t)
    \/ Tick

\* the search under the scheduling the runtime guarantees: React runs the
\* effect of a committed render, time passes, and the event loop runs a timer
\* callback that is due.  Nothing obliges the user to type or the load to
\* settle.
SpecLive ==
    /\ Init
    /\ [][NextLive]_vars
    /\ WF_vars(RunEffect)
    /\ WF_vars(Tick)
    /\ WF_vars(\E t \in timers : TimerFires(t))

\* hierarchy and statistics over every small collection
NextData ==
    \/ \E d \in Collections(PersonPool, MaxPeople), r \in RelationshipTables : ParsedLoadSucceed(d, r)
    \/ \E m \in LoadErrors : ParsedLoadFail(m)
    \/ RunEffect

SpecData == Init /\ [][NextData]_vars

\* the filter over every small collection and every criteria of FilterInputs
NextFilter ==
    \/ \E d \in Collections(FilterPool, MaxFilterPeople) : ParsedLoadSucceed(d, <<>>)
    \/ \E f \in FilterInputs : SetFilters(f)
    \/ RunEffect

SpecFilter == Init /\ [][NextFilter]_vars

\* ingestion over every small table and every outcome of the two requests
NextIngest ==
    \/ \E pr \in PeopleResponses, rr \in RelationshipResponses :
          \E randoms \in [1..Len(KeptRows(pr.rows)) -> RandomSuffixes] :
              LoadResolves(pr, rr, randoms)
    \/ \E pr \in PeopleResponses, rr \in RelationshipResponses, m \in LoadErrors :
          LoadRejects(pr, rr, m)
    \/ RunEffect

SpecIngest == Init /\ [][NextIngest]_vars

-----------------------------------------------------------------------------
(* Properties *)

\* C1 (last-query-wins): a timer that is able to run carries the query that is
\* current, and the last write a timer made to results was the search output
\* for the query that was current at the moment of the write.
C1_LastQueryWins ==
    /\ \A t \in timers : effectDue # "sync" => t.query = query
    /\ lastEval.ran => lastEval.query = lastEval.queryNow

\* a pending timer was cancelled for a newer query, whose own timer then
\* wrote the results shown
C1_Witness ==
    /\ lastEval.cancelled
    /\ lastEval.ran
    /\ lastEval.query = query
    /\ results # <<>>
    /\ timers = {}

\* C2 (debounce): at most one search evaluation is pending at any moment, a
\* timer that is able to run cannot be due before the query has been unchanged
\* for the whole window, and every evaluation that ran found the query
\* unchanged for at least 150 ms.
C2_Debounce ==
    /\ Cardinality(timers) <= 1
    /\ \A t \in timers : effectDue # "sync" => t.remaining + quietMs >= 150
    /\ lastEval.ran => lastEval.quiet >= 150

\* after a cancellation and a completed evaluation, one timer is pending
C2_Witness ==
    /\ lastEval.cancelled
    /\ lastEval.ran
    /\ Cardinality(timers) = 1
    /\ quietMs < DebounceMs

\* C3 (short query): once the effect for a query shorter than 2 characters has
\* run, no timer is pending, results is empty and isSearching is false.
C3_ShortQuery ==
    (effectDue = "none" /\ Len(query) < 2) =>
        /\ timers = {}
        /\ results = <<>>
        /\ ~isSearching

\* a one-character query whose effect has run, after an earlier query had
\* produced results and a pending timer had been cancelled
C3_Witness ==
    /\ effectDue = "none"
    /\ Len(query) = 1
    /\ lastEval.ran
    /\ lastEval.cancelled
    /\ results = <<>>

\* C4 (result cap): results never holds more than 50 entries.
C4_ResultCap == Len(results) <= 50

\* the cap is reached on a collection larger than the cap
C4_Witness ==
    /\ Len(results) = 50
    /\ Len(people) > 50
    /\ lastEval.ran

\* membership of a person in a list of persons
InSeq(s, x) == \E i \in 1..Len(s) : s[i] = x

\* a category constrains the result when it is present and not empty
Constrains(category) == category # None /\ category[1] # <<>>

\* C5 as stated: every category, missionAreas included, is satisfied when the
\* person's field equals one of the category's values.
C5_FieldEquality ==
    \A i \in 1..Len(people) :
        LET p == people[i]
        IN  InSeq(filteredData, p) <=>
              /\ (Constrains(filters.services) => InSeq(filters.services[1], p.service_agency))
              /\ (Constrains(filters.positionTypes) => InSeq(filters.positionTypes[1], p.position_type))
              /\ (Constrains(filters.statuses) => InSeq(filters.statuses[1], p.status))
              /\ (Constrains(filters.missionAreas) => InSeq(filters.missionAreas[1], p.mission_area))
              /\ (Constrains(filters.locations) => InSeq(filters.locations[1], p.location))

\* C5 amended: the result holds exactly the persons that satisfy every
\* non-empty category; services, positionTypes, statuses and locations by
\* equality of the field with one of the values, missionAreas when one of the
\* trimmed comma-separated parts of mission_area equals one of the values.
C5_FilterContract ==
    /\ \A j \in 1..Len(filteredData) : InSeq(people, filteredData[j])
    /\ \A i \in 1..Len(people) :
        LET p == people[i]
            parts == Split(p.mission_area, ",")
        IN  InSeq(filteredData, p) <=>
              /\ (Constrains(filters.services) => InSeq(filters.services[1], p.service_agency))
              /\ (Constrains(filters.positionTypes) => InSeq(filters.positionTypes[1], p.position_type))
              /\ (Constrains(filters.statuses) => InSeq(filters.statuses[1], p.status))
              /\ (Constrains(filters.missionAreas) =>
                    \E k \in 1..Len(parts) :
                        InSeq(filters.missionAreas[1], Trim(parts[k])))
              /\ (Constrains(filters.locations) => InSeq(filters.locations[1], p.location))

\* two categories are active, one of them missionAreas, and the result keeps a
\* person with a multi-valued mission_area while dropping another person
C5_Witness ==
    /\ Active(filters.missionAreas)
    /\ Active(filters.services)
    /\ Len(filteredData) > 0
    /\ Len(filteredData) < Len(people)
    /\ \E j \in 1..Len(filteredData) :
          Len(Split(filteredData[j].mission_area, ",")) > 1

\* sub is full with some elements left out: the elements of sub are records of
\* full, unchanged, at strictly increasing positions (a person's id is its
\* position in the loaded collection)
IsSubsequence(sub, full) ==
    \A j \in 1..Len(sub) :
        /\ sub[j].id \in 1..Len(full)
        /\ full[sub[j].id] = sub[j]
        /\ j > 1 => sub[j - 1].id < sub[j].id

\* C6 (stable filter, frame): in every step the filtered list is a subsequence
\* of the collection (input order kept, nobody duplicated, records unchanged),
\* and a step that changes the criteria leaves the collection as it was.
C6_StableFilter ==
    [][ /\ IsSubsequence(filteredData', people')
        /\ filters' # filters => people' = people ]_vars

\* an active filter kept two of three persons, dropping one that is not the
\* last
C6_Witness ==
    /\ Active(filters.services) \/ Active(filters.statuses)
    /\ Len(people) = 3
    /\ Len(filteredData) = 2
    /\ filteredData[2].id = 3
    /\ filteredData[1] # filteredData[2]

\* the organizations of the built tree
Built == stats # None

\* how often person p occurs in the personnel lists of service s
Occurrences(s, p) ==
    Cardinality({ij \in (1..Len(orgTree[s])) \X (1..Len(people)) :
        /\ ij[2] <= Len(orgTree[s][ij[1]].personnel)
        /\ orgTree[s][ij[1]].personnel[ij[2]] = p})

\* C7 (partition): in the built tree, for every service, each person of that
\* service is in exactly one personnel list, exactly once; every member of a
\* personnel list is a person of that service; no two organizations of the
\* service share a name.
C7_Partition ==
    Built =>
        \A s \in ServiceSet :
            /\ s \in DOMAIN orgTree
            /\ \A i \in 1..Len(people) :
                  Occurrences(s, people[i]) =
                      IF people[i].service_agency = s THEN 1 ELSE 0
            /\ \A k \in 1..Len(orgTree[s]) :
                  \A j \in 1..Len(orgTree[s][k].personnel) :
                      /\ InSeq(people, orgTree[s][k].personnel[j])
                      /\ orgTree[s][k].personnel[j].service_agency = s
            /\ \A k, l \in 1..Len(orgTree[s]) :
                  orgTree[s][k].name = orgTree[s][l].name => k = l

\* three persons in two services, one service with two organizations
C7_Witness ==
    /\ Built
    /\ Len(people) = 3
    /\ Len(orgTree["Army"]) = 2
    /\ Len(orgTree["Navy"]) = 1

\* C8 as stated: every service's organization list in the built tree is sorted
\* by type priority, ties by name.
C8_SortedByTypePriority ==
    Built =>
        \A s \in DOMAIN orgTree :
            \A k \in 1..(Len(orgTree[s]) - 1) :
                OrgBeforeOrEqual(orgTree[s][k], orgTree[s][k + 1])

\* C9 (first wins): per service and organization key there is one
\* Organization; its abbreviation and type are those of the first person of
\* that service with that key in ingestion order, and its personnel list is
\* all persons of that service with that key, in ingestion order.
C9_FirstWins ==
    Built =>
        \A i \in 1..Len(people) :
            LET p == people[i]
                s == p.service_agency
                KeyOf(x) == IF x.organization_name # "" THEN x.organization_name
                            ELSE IF x.parent_organization # "" THEN x.parent_organization
                            ELSE "Unknown"
                same == SelectSeq(people, LAMBDA x :
                            x.service_agency = s /\ KeyOf(x) = KeyOf(p))
                orgs == SelectSeq(orgTree[s], LAMBDA o : o.name = KeyOf(p))
            IN  /\ Len(orgs) = 1
                /\ orgs[1].abbreviation = same[1].organization_abbreviation
                /\ orgs[1].type = same[1].organization_type
                /\ orgs[1].personnel = same

\* an organization holds two persons who disagree on the organization type
C9_Witness ==
    /\ Built
    /\ \E s \in DOMAIN orgTree : \E k \in 1..Len(orgTree[s]) :
          LET members == orgTree[s][k].personnel
          IN  /\ Len(members) >= 2
              /\ members[1].organization_type # members[2].organization_type
              /\ members[1].organization_abbreviation #
                     members[2].organization_abbreviation

\* the sum of the counts of a bucket object
RECURSIVE SumOver(_, _)
SumOver(obj, keys) ==
    IF keys = {} THEN 0
    ELSE LET k == CHOOSE x \in keys : TRUE
         IN  obj[k] + SumOver(obj, keys \ {k})

SumValues(obj) == SumOver(obj, DOMAIN obj)

C11_BucketBound ==
    Built =>
        \A area \in DOMAIN stats[1].byMissionArea :
            stats[1].byMissionArea[area] <= stats[1].totalRecords

\* C12 as stated: every percentage of fieldsPopulated is a number between 0
\* and 100, and is 0 for every tracked field when totalRecords is 0.
C12_PercentageRange ==
    Built =>
        \A f \in DOMAIN stats[1].fieldsPopulated :
            LET pct == stats[1].fieldsPopulated[f].percentage
            IN  /\ ~pct.nan
                /\ pct.tenths >= 0
                /\ pct.tenths <= 1000
                /\ stats[1].totalRecords = 0 => pct.tenths = 0

\* one of the two requests of the load did not deliver its table
LoadFailed ==
    /\ source # None
    /\ \/ source[1].people.kind # "ok"
       \/ source[1].relationships.kind # "ok"

\* C13 as stated: once a load in which fetching or parsing either table
\* failed has settled, people and relationships are empty, orgTree is empty,
\* stats is null, error is non-null and isLoading is false; and no step
\* changes the data store once the load has settled.
C13_FailedLoadEmpty ==
    [][ /\ (LoadFailed /\ loadPc = "settled")' =>
              /\ people' = <<>>
              /\ relationships' = <<>>
              /\ orgTree' = EmptyOrgTree
              /\ stats' = None
              /\ error' # None
              /\ ~isLoading'
        /\ loadPc = "settled" => UNCHANGED dataVars ]_vars

\* C14 as stated: once the load has settled with an error, every view shows
\* the error as a message and none shows its loading indicator.
C14_ErrorShown ==
    (loadPc = "settled" /\ error # None) =>
        \A view \in Views :
            /\ view.message = error
            /\ view.shows = "content"

\* the row has a name cell holding a character other than a blank
HasName(row) ==
    "name" \in DOMAIN row /\ \E i \in 1..Len(row.name) : row.name[i] # " "

\* the rows of the people table that was ingested
IngestedRows == source[1].people.rows

\* a load at the level of the requests has delivered the tables
Ingested == source # None /\ Built

\* how many persons the personnel lists of the tree hold
RECURSIVE CountPersonnel(_)
CountPersonnel(orgs) ==
    IF orgs = <<>> THEN 0
    ELSE Len(Head(orgs).personnel) + CountPersonnel(Tail(orgs))

\* C15 (blank names dropped): after ingestion every Person has a non-empty
\* name; the collection has one Person per row with a non-blank name, and the
\* search index, the stats totals and the org tree hold nothing beyond that
\* collection.
C15_BlankNameDropped ==
    Ingested =>
        LET named == SelectSeq(IngestedRows, HasName)
        IN  /\ \A i \in 1..Len(people) : people[i].name # <<>>
            /\ Len(people) = Len(named)
            /\ fuse.docs = people
            /\ stats[1].totalRecords = Len(named)
            /\ SumValues(stats[1].byService) = Len(named)
            /\ SumValues(stats[1].byStatus) = Len(named)
            /\ stats[1].fieldsPopulated["name"].count = Len(named)
            /\ SumOver([s \in DOMAIN orgTree |-> CountPersonnel(orgTree[s])],
                       DOMAIN orgTree) <= Len(named)
            /\ \A s \in DOMAIN orgTree : \A k \in 1..Len(orgTree[s]) :
                  \A j \in 1..Len(orgTree[s][k].personnel) :
                      InSeq(people, orgTree[s][k].personnel[j])

\* a table of two rows, one with a name of blanks only, gave one Person
C15_Witness ==
    /\ Ingested
    /\ Len(IngestedRows) = 2
    /\ \E i \in 1..2 :
          /\ "name" \in DOMAIN IngestedRows[i]
          /\ IngestedRows[i].name # <<>>
          /\ ~HasName(IngestedRows[i])
    /\ Len(people) = 1
    /\ stats[1].totalRecords = 1

\* the service the claim expects for a raw value: the known service whose
\* name equals the trimmed value when letter case is ignored, else 'Unknown'
ExpectedService(service) ==
    LET normalized == ToLowerCase(Trim(service))
    IN  IF \E k \in ServiceMapKeys : ToLowerCase(Spelling[k]) = normalized
        THEN CHOOSE k \in ServiceMapKeys : ToLowerCase(Spelling[k]) = normalized
        ELSE "Unknown"

\* C16 as stated: every ingested Person carries the known service that its
\* raw value matches without regard to letter case or surrounding blanks,
\* 'Unknown' when it matches none, and always one of the 18 Service values.
C16_ServiceNormalized ==
    Ingested =>
        LET named == SelectSeq(IngestedRows, HasName)
        IN  \A i \in 1..Len(people) :
                /\ people[i].service_agency \in ServiceSet
                /\ i <= Len(named) =>
                      people[i].service_agency =
                          ExpectedService(named[i].service_agency)

\* C17 as stated: the ids of the Persons of one load are pairwise distinct.
C17_DistinctIds ==
    Ingested =>
        \A i, j \in 1..Len(people) : i # j => people[i].id # people[j].id

\* C18 as stated: while the debounce window of a query is open (its timer is
\* pending and not yet due), isSearching is false.
C18_PendingNotSearching ==
    (\E t \in timers : t.remaining > 0) => ~isSearching

\* the values of a category's list
ValueSet(category) == {category[1][k] : k \in 1..Len(category[1])}

\* every element of small is an element of big
ContainsAll(big, small) == \A j \in 1..Len(small) : InSeq(big, small[j])

\* C19 (monotonicity): in a step that changes one category of the criteria
\* over the same data, if the category was non-empty and its new list holds
\* every old value, the new result contains the old one; if the category was
\* empty or absent and is now non-empty, the old result contains the new one.
C19_Monotone ==
    [][ (people' = people /\ filters' # filters) =>
          \A c \in DOMAIN filters :
              (\A d \in DOMAIN filters \ {c} : filters'[d] = filters[d]) =>
                  /\ (Active(filters[c]) /\ Active(filters'[c])
                        /\ ValueSet(filters[c]) \subseteq ValueSet(filters'[c]))
                       => ContainsAll(filteredData', filteredData)
                  /\ (~Active(filters[c]) /\ Active(filters'[c]))
                       => ContainsAll(filteredData, filteredData') ]_vars

\* services holds two values, the result has a person for each of them, and
\* another category keeps somebody out
C19_Witness ==
    /\ filters.services = Some(<<"Army", "Navy">>)
    /\ Active(filters.statuses) \/ Active(filters.missionAreas)
    /\ \E j \in 1..Len(filteredData) : filteredData[j].service_agency = "Army"
    /\ \E j \in 1..Len(filteredData) : filteredData[j].service_agency = "Navy"
    /\ Len(filteredData) < Len(people)

\* the person is admitted by every category other than missionAreas
OthersAdmit(p) ==
    /\ Active(filters.services) =>
          p.service_agency \in ValueSet(filters.services)
    /\ Active(filters.positionTypes) =>
          p.position_type \in ValueSet(filters.positionTypes)
    /\ Active(filters.statuses) => p.status \in ValueSet(filters.statuses)
    /\ Active(filters.locations) => p.location \in ValueSet(filters.locations)

\* the trimmed comma-separated parts of a mission_area string
TrimmedParts(mission) ==
    {Trim(Split(mission, ",")[k]) : k \in 1..Len(Split(mission, ","))}

\* C20 (mission areas): with a non-empty missionAreas list, a person the
\* other categories admit is in the result if and only if one of the trimmed
\* comma-separated parts of its mission_area is a value of the list; a person
\* without such a part is never in the result.
C20_MissionAreaOverlap ==
    Active(filters.missionAreas) =>
        \A i \in 1..Len(people) :
            LET p == people[i]
                overlap == TrimmedParts(p.mission_area)
                               \cap ValueSet(filters.missionAreas) # {}
            IN  /\ InSeq(filteredData, p) => overlap
                /\ (overlap /\ OthersAdmit(p)) => InSeq(filteredData, p)

\* missionAreas is the only active category; the result keeps a person whose
\* matching part is not the whole field and needs trimming, and drops a
\* person that has mission areas
C20_Witness ==
    /\ Active(filters.missionAreas)
    /\ ~Active(filters.services) /\ ~Active(filters.positionTypes)
    /\ ~Active(filters.statuses) /\ ~Active(filters.locations)
    /\ \E j \in 1..Len(filteredData) :
          LET parts == Split(filteredData[j].mission_area, ",")
          IN  /\ Len(parts) > 1
              /\ \E k \in 1..Len(parts) :
                    /\ Trim(parts[k]) # parts[k]
                    /\ Trim(parts[k]) \in ValueSet(filters.missionAreas)
              /\ \A k \in 1..Len(parts) :
                    parts[k] \notin ValueSet(filters.missionAreas)
    /\ \E i \in 1..Len(people) :
          /\ people[i].mission_area # <<>>
          /\ ~InSeq(filteredData, people[i])

\* C21 as stated: once the effect of a render has run, no pending timer holds
\* an index other than the current one, and every evaluation that wrote
\* results used the index built from the collection current at that moment.
C21_CurrentIndex ==
    /\ effectDue = "none" => \A t \in timers : t.fuse = fuse
    /\ lastEval.ran => lastEval.indexCurrent

\* C22 as stated: after a successful load, stats.totalRelationships is the
\* number of relationship records loaded.
C22_RelationshipCount ==
    Built => stats[1].totalRelationships = Len(relationships)

\* how many of the comma-separated parts of a mission_area trim to value
RECURSIVE PartsEqual(_, _)
PartsEqual(parts, value) ==
    IF parts = <<>> THEN 0
    ELSE (IF Trim(Head(parts)) = value THEN 1 ELSE 0)
             + PartsEqual(Tail(parts), value)

\* how many parts of the mission_area fields of persons trim to value
RECURSIVE CarriedBy(_, _)
CarriedBy(persons, value) ==
    IF persons = <<>> THEN 0
    ELSE PartsEqual(Split(Head(persons).mission_area, ","), value)
             + CarriedBy(Tail(persons), value)

\* the non-empty mission areas the persons of the collection carry
CarriedAreas ==
    UNION {TrimmedParts(people[i].mission_area) : i \in 1..Len(people)} \ {<<>>}

\* C23 as stated: byMissionArea has a bucket for exactly the trimmed non-empty
\* components that persons carry, and the count of a bucket is the number of
\* components that trim to its value.
C23_MissionAreaCounts ==
    Built =>
        /\ DOMAIN stats[1].byMissionArea = CarriedAreas
        /\ \A area \in CarriedAreas :
              stats[1].byMissionArea[area] = CarriedBy(people, area)

\* the value ingestion must store for a raw cell holding an enum field
StoredAs(row, field, value, fallback) ==
    IF field \in DOMAIN row /\ \E i \in 1..Len(row[field]) : row[field][i] # " "
    THEN /\ Spelling[value] = Trim(row[field])
         /\ Spelling[value] # <<>>
    ELSE value = fallback

\* C24 (permissive enums): a non-blank position_type or status is stored as its
\* trimmed text whether or not the enum declares it, a blank one becomes
\* 'Other' or 'Confirmed', and the stored value is a key of byPositionType or
\* byStatus.
C24_PermissiveEnums ==
    Ingested =>
        LET named == SelectSeq(IngestedRows, HasName)
        IN  /\ Len(people) = Len(named)
            /\ \A i \in 1..Len(people) :
                  /\ StoredAs(named[i], "position_type", people[i].position_type, "Other")
                  /\ StoredAs(named[i], "status", people[i].status, "Confirmed")
                  /\ people[i].position_type \in DOMAIN stats[1].byPositionType
                  /\ people[i].status \in DOMAIN stats[1].byStatus

\* a table with a status and a position type that no enum declares and with
\* a blank position type and a blank status was ingested
C24_Witness ==
    /\ Ingested
    /\ \E i \in 1..Len(people) :
          /\ people[i].status = "acting"
          /\ people[i].position_type = "Other"
    /\ \E i \in 1..Len(people) :
          /\ people[i].position_type = "LRFE"
          /\ people[i].status = "Confirmed"
    /\ "acting" \in DOMAIN stats[1].byStatus
    /\ "LRFE" \in DOMAIN stats[1].byPositionType

\* the value a person carries in a field, as characters; empty when blank
ValueOf(person, field) ==
    IF field \in CharFields THEN person[field]
    ELSE IF person[field] = "" THEN <<>>
    ELSE Spelling[person[field]]

\* the non-empty values the persons of the collection carry in a field
CarriedValues(field) ==
    IF field = "mission_area" THEN CarriedAreas
    ELSE {ValueOf(people[k], field) : k \in 1..Len(people)} \ {<<>>}

\* C25 (unique values): for every field, getUniqueValues of the collection is
\* strictly ascending (sorted, no duplicates) and holds exactly the non-empty
\* values persons carry: the trimmed non-empty comma-separated parts for
\* mission_area, the raw value for every other field.
C25_UniqueValues ==
    \A field \in UniqueFields :
        LET r == getUniqueValues(people, field)
        IN  /\ \A i \in 1..Len(r) : \A j \in 1..Len(r) :
                  i < j => CodeUnitLess(r[i], r[j])
            /\ {r[i] : i \in 1..Len(r)} = CarriedValues(field)

\* three persons whose values arrive out of order and repeat
C25_Witness ==
    /\ Built
    /\ Len(people) = 3
    /\ people[1].service_agency = "Navy"
    /\ people[1].mission_area = <<"B", " ", ",", "A">>
    /\ getUniqueValues(people, "mission_area") = << <<"A">>, <<"B">> >>
    /\ getUniqueValues(people, "service_agency")
           = << Spelling["Army"], Spelling["Navy"] >>

\* C26 (derived structures are current): whenever isLoading is false and error
\* is null, stats is non-null with totalRecords the length of people, and
\* orgTree is the tree of exactly the current people: it is what buildOrgTree
\* gives for them, and its personnel lists hold as many persons as people has
\* persons of the services of the tree.
C26_DerivedCurrent ==
    (~isLoading /\ error = None) =>
        /\ stats # None
        /\ stats[1].totalRecords = Len(people)
        /\ orgTree = buildOrgTree(people)
        /\ SumOver([s \in DOMAIN orgTree |-> CountPersonnel(orgTree[s])],
                   DOMAIN orgTree)
              = Cardinality({i \in 1..Len(people) :
                                people[i].service_agency \in DOMAIN orgTree})

\* a load of three persons has settled without error
C26_Witness ==
    /\ ~isLoading
    /\ error = None
    /\ Len(people) = 3
    /\ stats # None
    /\ \E s \in DOMAIN orgTree : \E k \in 1..Len(orgTree[s]) :
          Len(orgTree[s][k].personnel) = 2

\* C27 as stated: in every state a consumer can render and be shown in, where
\* isSearching is false and the query has at least 2 characters, results is
\* the search output for the current query over the current data.
C27_ResultsCurrent ==
    (effectDue # "sync" /\ ~isSearching /\ Len(query) >= MinQueryLen) =>
        results = FuseSearch(fuse, query, SearchLimit)

\* the search for q over index has finished
Finished(q, index) ==
    ~isSearching /\ results = FuseSearch(index, q, SearchLimit)

\* a step that changes the query or the data the search runs over
SearchInputChanges == query' # query \/ fuse' # fuse

\* C28 (search liveness): if from some point on neither the query nor the
\* data changes, then isSearching is false again and again, and with a query
\* of at least 2 characters results is then the search output for that query
\* over that data; so a raised isSearching does not stay raised.
C28_SearchCompletes ==
    <>[][~SearchInputChanges]_vars =>
        []<>(/\ ~isSearching
             /\ Len(query) >= MinQueryLen => Finished(query, fuse))

\* a query of 2 characters has completed its debounce and found records
C28_Witness ==
    /\ Len(query) = MinQueryLen
    /\ lastEval.ran
    /\ lastEval.query = query
    /\ timers = {}
    /\ effectDue = "none"
    /\ Finished(query, fuse)
    /\ results # <<>>

\* C29 (clearSearch): once clearSearch was called and until a timer callback
\* writes results, results is empty; while no query was set since, the query
\* is empty; once the effect of the render has run, a timer is pending only
\* for the current query of at least 2 characters (the timer pending at the
\* call is cancelled), and with the empty query isSearching is false.
C29_ClearSearch ==
    lastEval.cleared =>
        /\ results = <<>>
        /\ lastEval.untouched => query = <<>>
        /\ effectDue = "none" =>
              /\ \A t \in timers :
                    t.query = query /\ Len(query) >= MinQueryLen
              /\ query = <<>> => (timers = {} /\ ~isSearching)

\* clearSearch was called with a timer pending and results shown; its effect
\* has run
C29_Witness ==
    /\ lastEval.cleared
    /\ lastEval.untouched
    /\ lastEval.cancelled
    /\ lastEval.ran
    /\ effectDue = "none"
    /\ query = <<>>
    /\ timers = {}
    /\ people # <<>>

\* the personnel lists of a list of organizations
PersonnelLists(orgs) == {orgs[k].personnel : k \in 1..Len(orgs)}

\* C30 as stated: for every service, the organizations OrgExplorer computes
\* and those of the built tree hold the same personnel lists, with the same
\* members in the same order.
C30_BuildersAgree ==
    Built =>
        \A s \in ServiceSet :
            PersonnelLists(serviceOrgs(people, s)) = PersonnelLists(orgTree[s])

=============================================================================
